---- MODULE Spec2Model ----
(***************************************************************************)
(* Model of TeamMembershipImportManager (lms/djangoapps/teams/csv.py):     *)
(* the CSV driven bulk import of team memberships.  One import run is the  *)
(* sequence  validate_teamsets -> load caches -> one step per data row ->  *)
(* one add_user_to_team step per validated row.  A second run of the same  *)
(* file in a fresh manager can follow a successful first run.              *)
(***************************************************************************)
EXTENDS Integers, Sequences, FiniteSets, TLC

\* ------------------------------------------------------------- bounds ----
MaxRows == 2
MaxCols == 2

\* ---------------------------------------------------- the environment ----
\* course.teams_configuration.teamsets, and one header cell that is no teamset
ConfiguredTeamsets == {"t1", "t2"}
HeaderCells == ConfiguredTeamsets \cup {"tx"}

\* django.contrib.auth User rows: id, username, email
AllUsers ==
    { [id |-> 1, username |-> "u1", email |-> "e1"],
      [id |-> 2, username |-> "u2", email |-> "e2"],
      [id |-> 3, username |-> "u3", email |-> "e3"] }

\* CourseEnrollment.is_enrolled(user, course.id)
EnrolledIds == {1, 2}

\* what the 'user' cell of a data row may hold
Identifiers == {"", "u1", "e1", "u2", "u3", "zz"}

\* what a teamset cell of a data row may hold
TeamNames == {"A"}
CellValues == {""} \cup TeamNames

\* values that max_errors is given by the caller (0 is the constructor's)
MaxErrorsChoices == {0, 2, 3}

\* default_max_team_size of the course: None (the empty set) or a number
NoMaxSize == {}
MaxTeamSizeChoices == {NoMaxSize, {1}}

None == [id |-> 0, username |-> "", email |-> ""]
Unbound == 0

\* the stored teams and memberships an import may start from: no team; team A
\* of t1 without members or with user 1; a team Z of t1 (a name no file uses)
\* with user 1, alone or next to an empty team A
TeamA == [name |-> "A", topic_id |-> "t1"]
TeamZ == [name |-> "Z", topic_id |-> "t1"]
InitialDBs ==
    { [teams |-> <<>>, memberships |-> {}],
      [teams |-> <<TeamA>>, memberships |-> {}],
      [teams |-> <<TeamA>>, memberships |-> {<<1, 1>>}],
      [teams |-> <<TeamZ>>, memberships |-> {<<1, 1>>}],
      [teams |-> <<TeamA, TeamZ>>, memberships |-> {<<1, 2>>}] }

RECURSIVE SeqsUpTo(_, _)
SeqsUpTo(S, n) ==
    IF n = 0 THEN {<<>>}
    ELSE LET shorter == SeqsUpTo(S, n - 1)
         IN shorter \cup {Append(s, x) : s \in {t \in shorter : Len(t) = n - 1}, x \in S}

Range(s) == {s[i] : i \in DOMAIN s}

\* every data row a file with this header can hold
RowChoices(hdr) == [user : Identifiers, cells : [Range(hdr) -> CellValues]]

VARIABLES
    header,                  \* reader.fieldnames[2:]
    max_team_size,           \* course.teams_configuration.default_max_team_size
    teams,                   \* CourseTeam rows; a team's key is its index
    memberships,             \* CourseTeamMembership rows <<user id, team>>
    events,                  \* what emit_team_event was called with
    validation_errors,
    teamset_ids,
    user_ids_by_teamset_id,
    number_of_record_added,
    max_errors,
    existing_course_team_memberships,
    existing_course_teams,
    csv_usernames,
    row_dictionaries,
    pc,                      \* position inside set_team_membership_from_csv
    exit,                    \* which return (or raise) ended the run
    returned,                \* "none", "True", "False"
    file,                    \* the data rows of the file read so far
    rownum,                  \* rows the reader has yielded in this run
    commitnum,               \* rows the commit loop has finished
    run,                     \* 1: first import, 2: the same file again
    start                    \* teams, memberships, event count when the run began

vars == <<header, max_team_size, teams, memberships, events, validation_errors,
          teamset_ids, user_ids_by_teamset_id, number_of_record_added, max_errors,
          existing_course_team_memberships, existing_course_teams, csv_usernames,
          row_dictionaries, pc, exit, returned, file, rownum, commitnum, run, start>>

db == <<teams, memberships, events>>
manager == <<validation_errors, teamset_ids, user_ids_by_teamset_id, number_of_record_added,
             max_errors, existing_course_team_memberships, existing_course_teams>>

\* ------------------------------------------------------------ helpers ----
\* CourseTeam.team_id: a string that names one team
team_id(ts, t) == ts[t].name \o "-" \o ToString(t)

\* team.users.count()
users_count(mems, t) == Cardinality({m \in mems : m[2] = t})

\* the error messages, as <<kind, argument, argument>>
TeamsetDuplicated(ts) == <<"teamset_duplicated", ts, "">>
TeamsetDoesNotExist(ts) == <<"teamset_does_not_exist", ts, "">>
NotEnrolled(username) == <<"not_enrolled", username, "">>
FoundMoreThanOnce(username) == <<"found_more_than_once", username, "">>
AlreadyMember(username, ts) == <<"already_member", username, ts>>
TeamFull(tid) == <<"team_full", tid, "">>
UserDoesNotExist(user_name) == <<"user_does_not_exist", user_name, "">>

\* __init__
Init ==
    /\ header \in SeqsUpTo(HeaderCells, MaxCols)
    /\ max_team_size \in MaxTeamSizeChoices
    /\ \E d \in InitialDBs :
          /\ teams = d.teams
          /\ memberships = d.memberships
          /\ start = [teams |-> d.teams, memberships |-> d.memberships, events |-> 0]
    /\ events = <<>>
    /\ validation_errors = <<>>
    /\ teamset_ids = <<>>
    /\ user_ids_by_teamset_id = <<>>
    /\ number_of_record_added = 0
    /\ max_errors \in MaxErrorsChoices
    /\ existing_course_team_memberships = <<>>
    /\ existing_course_teams = <<>>
    /\ csv_usernames = {}
    /\ row_dictionaries = <<>>
    /\ pc = "start"
    /\ exit = "none"
    /\ returned = "none"
    /\ file = <<>>
    /\ rownum = 0
    /\ commitnum = 0
    /\ run = 1

\* ---------------------------------------------------- validate_teamsets ----
\* the loop of validate_teamsets from column i on; dupe_set holds the columns before i
RECURSIVE validate_teamsets_from(_, _, _)
validate_teamsets_from(ids, i, dupe_set) ==
    IF i > Len(ids) THEN <<>>
    ELSE IF ids[i] \in dupe_set THEN <<TeamsetDuplicated(ids[i])>>
    ELSE IF ids[i] \notin ConfiguredTeamsets THEN <<TeamsetDoesNotExist(ids[i])>>
    ELSE validate_teamsets_from(ids, i + 1, dupe_set \cup {ids[i]})

\* a gate that looks for unknown teamsets only
validate_teamsets_mut(ids) ==
    LET unknown == {i \in 1..Len(ids) : ids[i] \notin ConfiguredTeamsets}
    IN IF unknown = {} THEN <<>>
       ELSE <<TeamsetDoesNotExist(ids[CHOOSE i \in unknown : \A j \in unknown : i <= j])>>

\* the errors validate_teamsets appends: none (it returns True) or one (False)
validate_teamsets(ids) == validate_teamsets_from(ids, 1, {})

\* set_team_membership_from_csv, lines 60-65
ValidateTeamsets ==
    /\ pc = "start"
    /\ teamset_ids' = header
    /\ csv_usernames' = {}
    /\ row_dictionaries' = <<>>
    /\ LET errs == validate_teamsets(header)
       IN /\ validation_errors' = validation_errors \o errs
          /\ IF errs # <<>>
             THEN pc' = "done" /\ exit' = "gate" /\ returned' = "False"
             ELSE pc' = "load" /\ UNCHANGED <<exit, returned>>
    /\ UNCHANGED <<header, max_team_size, db, user_ids_by_teamset_id, number_of_record_added,
                   max_errors, existing_course_team_memberships, existing_course_teams,
                   file, rownum, commitnum, run, start>>

\* ------------------------------------------------------------- caches ----
\* load_user_ids_by_teamset_id
load_user_ids_by_teamset_id(ids, ts, mems) ==
    [teamset_id \in Range(ids) |->
        {m[1] : m \in {x \in mems : ts[x[2]].topic_id = teamset_id}}]

\* a membership cache that is never filled
MembershipCaches_mut(ts, mems) == {<<>>}

\* load_course_team_memberships: a dict, so one team id per (user_id, teamset_id);
\* when the table holds several, the one stored last by the query's order
MembershipCaches(ts, mems) ==
    LET keys == {<<m[1], ts[m[2]].topic_id>> : m \in mems}
    IN {f \in [keys -> 1..Len(ts)] : \A k \in keys : <<k[1], f[k]>> \in mems /\ ts[f[k]].topic_id = k[2]}

\* load_course_teams: a dict, so one team per (name, topic_id)
TeamCaches(ts) ==
    LET keys == {<<ts[t].name, ts[t].topic_id>> : t \in 1..Len(ts)}
    IN {f \in [keys -> 1..Len(ts)] : \A k \in keys : ts[f[k]].name = k[1] /\ ts[f[k]].topic_id = k[2]}

\* set_team_membership_from_csv, lines 66-68
LoadCaches ==
    /\ pc = "load"
    /\ user_ids_by_teamset_id' = load_user_ids_by_teamset_id(teamset_ids, teams, memberships)
    /\ existing_course_team_memberships' \in MembershipCaches(teams, memberships)
    /\ existing_course_teams' \in TeamCaches(teams)
    /\ pc' = "rows"
    /\ UNCHANGED <<header, max_team_size, db, validation_errors, teamset_ids,
                   number_of_record_added, max_errors, csv_usernames, row_dictionaries,
                   exit, returned, file, rownum, commitnum, run, start>>

\* --------------------------------------------------- row validation ----
\* a threshold that must be passed, not reached
max_exceeded_mut(errs) == Len(errs) > max_errors

\* add_error_and_check_if_max_exceeded, line 211: the value it returns
max_exceeded(errs) == Len(errs) >= max_errors

\* an error that is counted but not stored
add_error_not_stored(errs, error_message) ==
    [errs |-> errs, exceeded |-> max_exceeded(Append(errs, error_message))]

\* an error that is put in front of the earlier ones
add_error_in_front(errs, error_message) ==
    [errs |-> <<error_message>> \o errs, exceeded |-> max_exceeded(Append(errs, error_message))]

\* add_error_and_check_if_max_exceeded: the new error list and the value returned
add_error_and_check_if_max_exceeded(errs, error_message) ==
    LET appended == Append(errs, error_message)
    IN [errs |-> appended, exceeded |-> max_exceeded(appended)]

\* a duplicate that is recorded only when it reaches the threshold
is_username_unique_mut(username, usernames_found_so_far, errs) ==
    IF username \in usernames_found_so_far
              /\ max_exceeded(Append(errs, FoundMoreThanOnce(username)))
    THEN [errs |-> Append(errs, FoundMoreThanOnce(username)), ok |-> FALSE]
    ELSE [errs |-> errs, ok |-> TRUE]

\* is_username_unique: the new error list and the value returned
is_username_unique(username, usernames_found_so_far, errs) ==
    IF username \in usernames_found_so_far
    THEN LET e == add_error_and_check_if_max_exceeded(errs, FoundMoreThanOnce(username))
         IN [errs |-> e.errs, ok |-> ~e.exceeded]
    ELSE [errs |-> errs, ok |-> TRUE]

\* get_user: by username, else by email, else None
get_user(user_name) ==
    IF \E u \in AllUsers : u.username = user_name
    THEN CHOOSE u \in AllUsers : u.username = user_name
    ELSE IF \E u \in AllUsers : u.email = user_name
    THEN CHOOSE u \in AllUsers : u.email = user_name
    ELSE None

\* a validation that takes every user for enrolled
is_enrolled_mut(user) == TRUE

\* validate_user_enrolled_in_course: the condition of line 147
is_enrolled(user) == user.id \in EnrolledIds

\* a capacity test that lets a team at the max size take one more
team_is_full_mut(team) ==
    max_team_size # NoMaxSize /\ \E m \in max_team_size : users_count(memberships, team) > m

\* lines 190-191: the team has reached default_max_team_size
team_is_full(team) ==
    max_team_size # NoMaxSize /\ \E m \in max_team_size : users_count(memberships, team) >= m

\* line 195: the membership cache holds the user for the team's teamset
has_cached_membership(user, team) ==
    <<user.id, teams[team].topic_id>> \in DOMAIN existing_course_team_memberships

\* a validation that forgets the placements of earlier rows
place_user_mut(uids, teamset_id, user) == uids

\* line 188: the user is placed in the teamset for the rows that follow
place_user(uids, teamset_id, user) == [uids EXCEPT ![teamset_id] = @ \cup {user.id}]

\* validate_user_assignment_to_team_and_teamset: the loop from column i on.
\* Gives the error list, the per-teamset user ids and the value returned.
RECURSIVE validate_user_assignment_from(_, _, _, _, _)
validate_user_assignment_from(user, cells, i, errs, uids) ==
    IF i > Len(teamset_ids) THEN [errs |-> errs, uids |-> uids, ok |-> TRUE]
    ELSE
      LET teamset_id == teamset_ids[i]
          team_name == cells[teamset_id]
      IN
      IF team_name = "" THEN validate_user_assignment_from(user, cells, i + 1, errs, uids)
      ELSE IF <<team_name, teamset_id>> \notin DOMAIN existing_course_teams
      THEN \* except KeyError
           IF user.id \in uids[teamset_id]
           THEN LET e == add_error_and_check_if_max_exceeded(
                             errs, AlreadyMember(user.username, teamset_id))
                IN IF e.exceeded
                   THEN [errs |-> e.errs, uids |-> uids, ok |-> FALSE]
                   ELSE validate_user_assignment_from(
                            user, cells, i + 1, e.errs, place_user(uids, teamset_id, user))
           ELSE validate_user_assignment_from(
                    user, cells, i + 1, errs, place_user(uids, teamset_id, user))
      ELSE
           LET team == existing_course_teams[<<team_name, teamset_id>>]
               e1 == IF team_is_full(team)
                     THEN add_error_and_check_if_max_exceeded(errs, TeamFull(team_id(teams, team)))
                     ELSE [errs |-> errs, exceeded |-> FALSE]
               e2 == IF has_cached_membership(user, team)
                     THEN add_error_and_check_if_max_exceeded(
                              e1.errs, AlreadyMember(user.username, teams[team].topic_id))
                     ELSE [errs |-> e1.errs, exceeded |-> FALSE]
           IN IF e1.exceeded THEN [errs |-> e1.errs, uids |-> uids, ok |-> FALSE]
              ELSE IF e2.exceeded THEN [errs |-> e2.errs, uids |-> uids, ok |-> FALSE]
              ELSE validate_user_assignment_from(user, cells, i + 1, e2.errs, uids)

validate_user_assignment_to_team_and_teamset(user, cells, errs, uids) ==
    validate_user_assignment_from(user, cells, 1, errs, uids)

\* a loop that looks up the empty identifier like any other
skip_row_mut(username) == FALSE

\* line 72: "if not username: continue"
skip_row(username) == username = ""

\* One pass of the loop "for row in reader" (lines 70-87): the session state after
\* it, and whether the loop goes on ("continue") or the function returns False.
process_row(row) ==
    LET username == row.user
        same == [errs |-> validation_errors, uids |-> user_ids_by_teamset_id,
                 names |-> csv_usernames, rows |-> row_dictionaries, step |-> "continue"]
    IN
    IF skip_row(username) THEN same
    ELSE
      LET uniq == is_username_unique(username, csv_usernames, validation_errors)
          names == csv_usernames \cup {username}
          user == get_user(username)
      IN
      IF ~uniq.ok THEN [same EXCEPT !.errs = uniq.errs, !.step = "return_false"]
      ELSE IF user = None
      THEN [same EXCEPT !.errs = Append(uniq.errs, UserDoesNotExist(username)), !.names = names]
      ELSE IF ~is_enrolled(user)
      THEN [same EXCEPT !.errs = Append(uniq.errs, NotEnrolled(user.username)), !.names = names]
      ELSE
        LET v == validate_user_assignment_to_team_and_teamset(
                     user, row.cells, uniq.errs, user_ids_by_teamset_id)
        IN IF ~v.ok
           THEN [same EXCEPT !.errs = v.errs, !.uids = v.uids, !.names = names,
                             !.step = "return_false"]
           ELSE [same EXCEPT !.errs = v.errs, !.uids = v.uids, !.names = names,
                             !.rows = Append(row_dictionaries,
                                             [user |-> user, cells |-> row.cells])]

\* the reader yields the next data row: any row in the first run, the row of
\* the file in the second
NextRows ==
    IF run = 1 THEN IF rownum < MaxRows THEN RowChoices(header) ELSE {}
    ELSE IF rownum < Len(file) THEN {file[rownum + 1]} ELSE {}

\* set_team_membership_from_csv, lines 70-87, for one row
ProcessRow ==
    /\ pc = "rows"
    /\ \E row \in NextRows :
         LET r == process_row(row)
         IN /\ validation_errors' = r.errs
            /\ user_ids_by_teamset_id' = r.uids
            /\ csv_usernames' = r.names
            /\ row_dictionaries' = r.rows
            /\ file' = IF run = 1 THEN Append(file, row) ELSE file
            /\ rownum' = rownum + 1
            /\ IF r.step = "return_false"
               THEN pc' = "done" /\ exit' = "abort" /\ returned' = "False"
               ELSE UNCHANGED <<pc, exit, returned>>
    /\ UNCHANGED <<header, max_team_size, db, teamset_ids, number_of_record_added, max_errors,
                   existing_course_team_memberships, existing_course_teams, commitnum,
                   run, start>>

\* a commit that tolerates one recorded error
validation_passed_mut(errs) == Len(errs) <= 1

\* line 89: "if not self.validation_errors"
validation_passed(errs) == errs = <<>>

\* the reader is exhausted; line 89 and the return of line 94
EndOfRows ==
    /\ pc = "rows"
    /\ run = 2 => rownum = Len(file)
    /\ IF validation_passed(validation_errors)
       THEN pc' = "commit" /\ UNCHANGED <<exit, returned>>
       ELSE pc' = "done" /\ exit' = "errors" /\ returned' = "False"
    /\ UNCHANGED <<header, max_team_size, db, manager, csv_usernames, row_dictionaries,
                   file, rownum, commitnum, run, start>>

\* -------------------------------------------------------- commit phase ----
\* CourseTeam.create(name, course_id, description, topic_id) and team.save()
CourseTeam_create(ts, name, topic_id) == Append(ts, [name |-> name, topic_id |-> topic_id])

\* CourseTeam.add_user(user)
add_user(mems, team, user) == mems \cup {<<user.id, team>>}

\* emit_team_event('edx.team.learner_added', course_id, {team_id, user_id, add_method})
emit_team_event(evs, ts, team, user) ==
    Append(evs, [team_id |-> team_id(ts, team), user_id |-> user.id])

\* line 226: the team cache has no team of that name in that teamset
must_create(team_name, teamset_id) ==
    <<team_name, teamset_id>> \notin DOMAIN existing_course_teams

\* a team variable kept from one call of add_user_to_team to the next
add_user_to_team_keeps_team(user_row) ==
    [teams |-> teams, memberships |-> memberships, events |-> events,
     added |-> number_of_record_added, team |-> Len(teams), raised |-> FALSE]

\* the locals of add_user_to_team when it is entered (line 221): team is unbound
add_user_to_team_entry(user_row) ==
    [teams |-> teams, memberships |-> memberships, events |-> events,
     added |-> number_of_record_added, team |-> Unbound, raised |-> FALSE]

\* add_user_to_team: the loop from column i on.  st.team is the local variable
\* team (Unbound until line 227 assigns it); reading it unbound at line 234
\* raises UnboundLocalError, which ends the loop with st.raised.
RECURSIVE add_user_to_team_from(_, _, _)
add_user_to_team_from(user_row, i, st) ==
    IF i > Len(teamset_ids) \/ st.raised THEN st
    ELSE
      LET teamset_id == teamset_ids[i]
          team_name == user_row.cells[teamset_id]
      IN
      IF team_name = "" THEN add_user_to_team_from(user_row, i + 1, st)
      ELSE
        LET create == must_create(team_name, teamset_id)
            teams1 == IF create THEN CourseTeam_create(st.teams, team_name, teamset_id)
                      ELSE st.teams
            team == IF create THEN Len(teams1) ELSE st.team
        IN IF team = Unbound
           THEN [st EXCEPT !.raised = TRUE]
           ELSE add_user_to_team_from(user_row, i + 1,
                    [teams |-> teams1,
                     memberships |-> add_user(st.memberships, team, user_row.user),
                     events |-> emit_team_event(st.events, teams1, team, user_row.user),
                     added |-> st.added + 1,
                     team |-> team,
                     raised |-> FALSE])

add_user_to_team(user_row) ==
    add_user_to_team_from(user_row, 1, add_user_to_team_entry(user_row))

\* a commit loop that walks the validated rows backwards
next_commit_row_mut(done) == Len(row_dictionaries) - done

\* line 90: "for row in row_dictionaries", the row after the `done` finished ones
next_commit_row(done) == done + 1

\* a commit that stores the teams it created in the team cache
cache_after_commit_mut(cache, ts) == CHOOSE f \in TeamCaches(ts) : TRUE

\* lines 221-244 never assign self.existing_course_teams: the cache after
\* add_user_to_team is the cache before it
cache_after_commit(cache, ts) == cache

\* set_team_membership_from_csv, lines 90-91, for one row
CommitRow ==
    /\ pc = "commit"
    /\ commitnum < Len(row_dictionaries)
    /\ LET st == add_user_to_team(row_dictionaries[next_commit_row(commitnum)])
       IN /\ teams' = st.teams
          /\ memberships' = st.memberships
          /\ events' = st.events
          /\ number_of_record_added' = st.added
          /\ existing_course_teams' = cache_after_commit(existing_course_teams, st.teams)
          /\ IF st.raised
             THEN pc' = "raised" /\ exit' = "raised" /\ UNCHANGED commitnum
             ELSE commitnum' = commitnum + 1 /\ UNCHANGED <<pc, exit>>
    /\ UNCHANGED <<header, max_team_size, validation_errors, teamset_ids, user_ids_by_teamset_id,
                   max_errors, existing_course_team_memberships,
                   csv_usernames, row_dictionaries, returned, file, rownum, run, start>>

\* set_team_membership_from_csv, line 92
ReturnTrue ==
    /\ pc = "commit"
    /\ commitnum = Len(row_dictionaries)
    /\ pc' = "done" /\ exit' = "commit" /\ returned' = "True"
    /\ UNCHANGED <<header, max_team_size, db, manager, csv_usernames, row_dictionaries,
                   file, rownum, commitnum, run, start>>

\* The file that was imported is given to a new TeamMembershipImportManager
\* (__init__, with max_errors then set by the caller) against the stored state
\* the first run left.
Rerun ==
    /\ pc = "done" /\ returned = "True" /\ run = 1
    /\ run' = 2
    /\ start' = [teams |-> teams, memberships |-> memberships, events |-> Len(events)]
    /\ validation_errors' = <<>>
    /\ teamset_ids' = <<>>
    /\ user_ids_by_teamset_id' = <<>>
    /\ number_of_record_added' = 0
    /\ max_errors' \in MaxErrorsChoices
    /\ existing_course_team_memberships' = <<>>
    /\ existing_course_teams' = <<>>
    /\ csv_usernames' = {}
    /\ row_dictionaries' = <<>>
    /\ pc' = "start" /\ exit' = "none" /\ returned' = "none"
    /\ rownum' = 0 /\ commitnum' = 0
    /\ UNCHANGED <<header, max_team_size, db, file>>

Next ==
    \/ ValidateTeamsets
    \/ LoadCaches
    \/ ProcessRow
    \/ EndOfRows
    \/ CommitRow
    \/ ReturnTrue
    \/ Rerun

Spec == Init /\ [][Next]_vars

\* ------------------------------------------------- notions of the claims ----
Ended == pc \in {"done", "raised"}

\* nothing was stored, emitted or counted since the run began
NoMutation ==
    /\ teams = start.teams
    /\ memberships = start.memberships
    /\ Len(events) = start.events
    /\ number_of_record_added = 0

\* column i of the header is no configured teamset, or repeats an earlier column
Offending(h, i) == h[i] \notin ConfiguredTeamsets \/ \E j \in 1..(i - 1) : h[j] = h[i]
BadHeader(h) == \E i \in 1..Len(h) : Offending(h, i)
FirstOffending(h) == CHOOSE i \in 1..Len(h) : Offending(h, i) /\ \A j \in 1..(i - 1) : ~Offending(h, j)
GateMessage(h) ==
    LET i == FirstOffending(h)
    IN IF \E j \in 1..(i - 1) : h[j] = h[i] THEN TeamsetDuplicated(h[i])
       ELSE TeamsetDoesNotExist(h[i])

\* the same non-empty identifier on two rows read from the file
HasDuplicateIdentifier ==
    \E i, j \in 1..Len(file) : i < j /\ file[i].user # "" /\ file[i].user = file[j].user

\* the teamset of a stored team
TopicOf(ts, t) == ts[t].topic_id

\* no user is in two teams of one teamset
OnePerTeamset(ts, mems) ==
    \A m1, m2 \in mems :
        (m1[1] = m2[1] /\ TopicOf(ts, m1[2]) = TopicOf(ts, m2[2])) => m1 = m2

\* ---------------------------------------------------------------- C1 ----
\* C1: once a validation error (of the gate or of a row) is recorded, the run
\* mutates nothing: no team is created, no membership added, no event emitted,
\* and number_of_record_added stays 0.
C1_ErrorsMeanNoMutation == validation_errors # <<>> => NoMutation /\ pc \notin {"commit", "raised"}

\* a run that ended with an error although a valid row with an assignment was kept
C1_Witness ==
    /\ pc = "done" /\ exit = "errors"
    /\ \E i \in 1..Len(row_dictionaries) :
          \E c \in Range(teamset_ids) : row_dictionaries[i].cells[c] # ""

\* ---------------------------------------------------------------- C2 ----
\* C2: a header with an unconfigured or a repeated teamset id makes the run
\* return False with exactly one message, that of the first offending column;
\* no row is read, no cache is loaded, nothing is mutated.
C2_GateRejectsHeader ==
    (pc # "start" /\ BadHeader(header)) =>
        /\ pc = "done" /\ returned = "False"
        /\ validation_errors = <<GateMessage(header)>>
        /\ rownum = 0 /\ file = <<>> /\ row_dictionaries = <<>>
        /\ user_ids_by_teamset_id = <<>>
        /\ existing_course_team_memberships = <<>>
        /\ existing_course_teams = <<>>
        /\ NoMutation

\* a rejected header whose last column repeats an earlier one
C2_Witness ==
    /\ pc = "done" /\ exit = "gate"
    /\ Len(header) >= 2
    /\ \E j \in 1..(Len(header) - 1) : header[j] = header[Len(header)]
    /\ validation_errors[1][1] = "teamset_duplicated"

\* ---------------------------------------------------------------- C3 ----
\* C3: when the same non-empty identifier is on two rows of the file, whatever
\* max_errors is, an error is recorded, the commit phase is never entered,
\* nothing is mutated and the run returns False.
C3_DuplicateIdentifierFails ==
    HasDuplicateIdentifier =>
        /\ validation_errors # <<>>
        /\ pc \notin {"commit", "raised"}
        /\ NoMutation
        /\ (pc = "done" => returned = "False")

\* the duplicate did not reach the threshold, validation went on to the end
C3_Witness ==
    /\ HasDuplicateIdentifier
    /\ pc = "done" /\ exit = "errors"
    /\ max_errors > 1
    /\ row_dictionaries # <<>>

\* ---------------------------------------------------------------- C4 ----
\* C4: in every state of an import run no user is a member of two teams of
\* the same teamset.
C4_OneMembershipPerTeamset == OnePerTeamset(teams, memberships)

\* a committed file in which the login name and the email of user 1 are on two rows
C4_Witness ==
    /\ pc = "done" /\ exit = "commit" /\ run = 1
    /\ \E i, j \in 1..Len(file) : file[i].user = "u1" /\ file[j].user = "e1"
    /\ Cardinality({m \in memberships : m[1] = 1}) >= 2

\* ---------------------------------------------------------------- C5 ----
\* the user an identifier stands for: the login name or the email of a user
UserOf(identifier) ==
    IF \E u \in AllUsers : identifier \in {u.username, u.email}
    THEN CHOOSE u \in AllUsers : identifier \in {u.username, u.email}
    ELSE None

\* row i of the file, whose identifier is on no earlier row, assigns a
\* resolved, enrolled user to teamset c
Assigned(i, c) ==
    /\ file[i].user # ""
    /\ \A j \in 1..(i - 1) : file[j].user # file[i].user
    /\ UserOf(file[i].user) # None
    /\ UserOf(file[i].user).id \in EnrolledIds
    /\ file[i].cells[c] # ""

\* the user of row i is in teamset c already: stored before the run, or
\* assigned to it by an earlier row
HeldBefore(i, c) ==
    LET u == UserOf(file[i].user)
    IN \/ \E m \in start.memberships : m[1] = u.id /\ TopicOf(start.teams, m[2]) = c
       \/ \E j \in 1..(i - 1) : Assigned(j, c) /\ UserOf(file[j].user) = u

\* validation went through every row of the file (no early return)
ValidationCompleted ==
    \/ pc \in {"commit", "raised"}
    \/ pc = "done" /\ exit \in {"errors", "commit"}

\* C5: every assignment of a resolved, enrolled user to a teamset the user is
\* already in (stored membership, or placement by an earlier row) records an
\* 'already a member' error for that user and teamset, and nothing is committed;
\* stated for the runs whose validation visited every row.
C5_Claimed ==
    (run = 1 /\ ValidationCompleted) =>
        \A i \in 1..Len(file) : \A c \in Range(header) :
            (Assigned(i, c) /\ HeldBefore(i, c)) =>
                /\ \E k \in 1..Len(validation_errors) :
                      validation_errors[k] = AlreadyMember(UserOf(file[i].user).username, c)
                /\ NoMutation
                /\ pc \notin {"commit", "raised"}

\* ---------------------------------------------------------------- C6 ----
\* the (row, teamset column) pairs of the file with an identifier and a team name
FilePairs ==
    {<<i, c>> \in (1..Len(file)) \X Range(header) : file[i].user # "" /\ file[i].cells[c] # ""}

\* C6: a run whose validation found no error ends with number_of_record_added
\* equal to the number of non-empty (row, teamset) pairs of the file, with as
\* many events emitted and as many memberships added.
C6_Claimed ==
    (Ended /\ exit \in {"commit", "raised"}) =>
        /\ number_of_record_added = Cardinality(FilePairs)
        /\ Len(events) - start.events = number_of_record_added
        /\ Cardinality(memberships \ start.memberships) = number_of_record_added

\* ---------------------------------------------------------------- C7 ----
\* the assignments of the validated rows in commit order: rows in file order,
\* teamset columns in header order
RECURSIVE AssignmentsFrom(_, _)
AssignmentsFrom(r, i) ==
    IF r > Len(row_dictionaries) THEN <<>>
    ELSE IF i > Len(teamset_ids) THEN AssignmentsFrom(r + 1, 1)
    ELSE LET c == teamset_ids[i]
             name == row_dictionaries[r].cells[c]
         IN (IF name = "" THEN <<>>
             ELSE <<[user |-> row_dictionaries[r].user, name |-> name, teamset |-> c]>>)
            \o AssignmentsFrom(r, i + 1)

PreExisting(name, teamset) ==
    \E t \in 1..Len(start.teams) : start.teams[t] = [name |-> name, topic_id |-> teamset]

\* C7: after a commit that returned, the k-th event and membership belong to
\* the team named by the k-th assignment (cell's team name, column's teamset),
\* which is a stored team of the start state if and only if one of that name
\* and teamset existed, and a team created by the run otherwise.
C7_Claimed ==
    (pc = "done" /\ exit = "commit") =>
        LET A == AssignmentsFrom(1, 1)
        IN /\ Len(events) - start.events = Len(A)
           /\ \A k \in 1..Len(A) :
                \E t \in 1..Len(teams) :
                    /\ events[start.events + k] =
                           [team_id |-> team_id(teams, t), user_id |-> A[k].user.id]
                    /\ teams[t] = [name |-> A[k].name, topic_id |-> A[k].teamset]
                    /\ <<A[k].user.id, t>> \in memberships
                    /\ (t <= Len(start.teams)) <=> PreExisting(A[k].name, A[k].teamset)

\* ---------------------------------------------------------------- C8 ----
\* the errors recorded through add_error_and_check_if_max_exceeded
CheckedKinds == {"found_more_than_once", "team_full", "already_member"}
UncheckedKinds == {"user_does_not_exist", "not_enrolled"}

\* C8 as claimed: with max_errors = 0 any recorded error ends the run right
\* after it, so that a run that recorded an error returns with exactly one message.
C8_Claimed ==
    (max_errors = 0 /\ pc = "done" /\ validation_errors # <<>>) => Len(validation_errors) = 1

\* C8 amended: every recorded error counts toward the threshold, but the
\* threshold is tested only when a duplicate-user, team-full or
\* membership-conflict error is recorded; such an error that brings the count
\* to max_errors or more is the last one recorded and the run returns False at
\* once.  An unresolvable-user or not-enrolled error never ends the run, so
\* every early return follows an error of a tested kind.
C8_ThresholdTestedOnCheckedErrors ==
    /\ \A k \in 1..Len(validation_errors) :
          (validation_errors[k][1] \in CheckedKinds /\ k >= max_errors) =>
              /\ k = Len(validation_errors)
              /\ pc = "done" /\ exit = "abort" /\ returned = "False"
    /\ exit = "abort" =>
          /\ validation_errors # <<>>
          /\ validation_errors[Len(validation_errors)][1] \in CheckedKinds
          /\ Len(validation_errors) >= max_errors
    /\ (validation_errors # <<>>
          /\ validation_errors[Len(validation_errors)][1] \in UncheckedKinds
          /\ ~Ended) => pc = "rows"

\* an unresolvable user was recorded and validation went on; the duplicate that
\* followed brought the count to the threshold
C8_Witness ==
    /\ exit = "abort"
    /\ Len(validation_errors) = 2
    /\ validation_errors[1][1] = "user_does_not_exist"
    /\ validation_errors[2][1] = "found_more_than_once"

\* ---------------------------------------------------------------- C9 ----
\* the row the reader yields in this step
RowRead == file'[rownum']

\* the identifier resolves to no user, or to a user who is not enrolled
NoEnrolledUser(identifier) ==
    UserOf(identifier) = None \/ UserOf(identifier).id \notin EnrolledIds

UnresolvedMessage(identifier) ==
    IF UserOf(identifier) = None THEN UserDoesNotExist(identifier)
    ELSE NotEnrolled(UserOf(identifier).username)

\* the duplicate check returned before the user of the row was looked up
StoppedAsDuplicate(identifier) ==
    identifier \in csv_usernames /\ Len(validation_errors) + 1 >= max_errors

\* the step of a row that reaches the lookup of a user who does not exist or is
\* not enrolled: one such error is appended last, nothing of the row is kept
\* or placed, and the loop over the rows goes on
UnresolvedRowStep ==
    (pc = "rows" /\ rownum' = rownum + 1 /\ RowRead.user # ""
        /\ NoEnrolledUser(RowRead.user) /\ ~StoppedAsDuplicate(RowRead.user)) =>
        /\ validation_errors' # <<>>
        /\ validation_errors'[Len(validation_errors')] = UnresolvedMessage(RowRead.user)
        /\ Len(validation_errors') =
              Len(validation_errors) + (IF RowRead.user \in csv_usernames THEN 2 ELSE 1)
        /\ row_dictionaries' = row_dictionaries
        /\ user_ids_by_teamset_id' = user_ids_by_teamset_id
        /\ pc' = "rows"

\* a recorded error of these kinds forbids the commit and makes the run return False
UnresolvedFailsRun ==
    (\E k \in 1..Len(validation_errors) : validation_errors[k][1] \in UncheckedKinds) =>
        /\ NoMutation
        /\ pc \notin {"commit", "raised"}
        /\ (pc = "done" => returned = "False")

\* C9: a row whose identifier resolves to no user, or to a user who is not
\* enrolled, records one error for it, adds no assignment to validation or
\* commit and does not end the loop over the rows; the run still returns False
\* and commits nothing.
C9_UnresolvedRowIsSkippedAndFails == [][UnresolvedRowStep]_vars /\ []UnresolvedFailsRun

\* an unresolvable row with a team name was followed by a valid row that was
\* kept, and the run returned False
C9_Witness ==
    /\ pc = "done" /\ exit = "errors"
    /\ Len(file) = 2
    /\ NoEnrolledUser(file[1].user) /\ file[1].user # ""
    /\ \E c \in Range(header) : file[1].cells[c] # ""
    /\ Len(row_dictionaries) = 1
    /\ Len(validation_errors) = 1

\* --------------------------------------------------------------- C10 ----
\* row i of the file names a user and at least one team
RowAssigns(i) == file[i].user # "" /\ \E c \in Range(header) : file[i].cells[c] # ""
FirstAssigningRow == CHOOSE i \in 1..Len(file) : RowAssigns(i) /\ \A j \in 1..(i - 1) : ~RowAssigns(j)
FirstAssignedTeamset(i) ==
    header[CHOOSE n \in 1..Len(header) :
              file[i].cells[header[n]] # "" /\ \A m \in 1..(n - 1) : file[i].cells[header[m]] = ""]

\* C10 as claimed: the second run of an imported file changes nothing and
\* every row that assigns a team records an 'already a member' error.
C10_Claimed ==
    (run = 2 /\ Ended) =>
        /\ NoMutation
        /\ \A i \in 1..Len(file) : RowAssigns(i) =>
              \E k \in 1..Len(validation_errors) : \E c \in Range(header) :
                  validation_errors[k] = AlreadyMember(UserOf(file[i].user).username, c)

\* C10 amended: the second run changes no team and no membership.  If the file
\* assigns no team it succeeds again; otherwise it returns False, and the first
\* row that assigns a team records, for its first assigned teamset, an
\* 'already a member' error, unless a 'team is already full' error of that cell
\* reached the threshold first.  Rows after the early return record nothing.
C10_RerunChangesNothingAndFails ==
    run = 2 =>
        /\ NoMutation
        /\ pc # "raised"
        /\ (pc = "done" /\ ~\E i \in 1..Len(file) : RowAssigns(i)) =>
              (returned = "True" /\ validation_errors = <<>>)
        /\ (pc = "done" /\ \E i \in 1..Len(file) : RowAssigns(i)) =>
              LET i == FirstAssigningRow
                  msg == AlreadyMember(UserOf(file[i].user).username, FirstAssignedTeamset(i))
              IN /\ returned = "False"
                 /\ validation_errors # <<>>
                 /\ \/ validation_errors[1] = msg
                    \/ /\ validation_errors[1][1] = "team_full"
                       /\ \/ Len(validation_errors) = 1 /\ exit = "abort"
                          \/ Len(validation_errors) >= 2 /\ validation_errors[2] = msg

\* the second run of a file with two assigning rows returned at the first of them
C10_Witness ==
    /\ run = 2 /\ pc = "done" /\ exit = "abort"
    /\ Len(file) = 2 /\ RowAssigns(1) /\ RowAssigns(2)
    /\ Len(validation_errors) = 1
    /\ validation_errors[1][1] = "already_member"

\* --------------------------------------------------------------- C11 ----
\* C11: on every return of set_team_membership_from_csv (gate failure, early
\* return at the threshold, end of the rows with errors, commit) the value
\* returned is True exactly when validation_errors is empty.
C11_ReturnsImportSucceeded ==
    pc = "done" =>
        /\ returned \in {"True", "False"}
        /\ (returned = "True") <=> (validation_errors = <<>>)
        /\ exit \in {"gate", "abort", "errors", "commit"}
        /\ (exit = "commit") <=> (returned = "True")

\* the run returned early at the threshold, with the error it stored
C11_Witness ==
    /\ pc = "done" /\ exit = "abort" /\ returned = "False"
    /\ validation_errors # <<>>
    /\ row_dictionaries # <<>>

\* --------------------------------------------------------------- C12 ----
\* no two stored teams have the same name and teamset
UniqueTeams(ts) ==
    \A a, b \in 1..Len(ts) : (ts[a].name = ts[b].name /\ ts[a].topic_id = ts[b].topic_id) => a = b

\* C12: when the run starts with at most one team per (name, teamset), every
\* state of the run has at most one team per (name, teamset).
C12_Claimed == UniqueTeams(start.teams) => UniqueTeams(teams)

\* --------------------------------------------------------------- C13 ----
\* the events emitted, and the teams created, since the run began
NewEvents == SubSeq(events, start.events + 1, Len(events))
NewTeams == SubSeq(teams, Len(start.teams) + 1, Len(teams))

\* the validated rows are rows of the file, in the order of the file
KeptInFileOrder ==
    \E f \in [1..Len(row_dictionaries) -> 1..Len(file)] :
        /\ \A a, b \in 1..Len(row_dictionaries) : a < b => f[a] < f[b]
        /\ \A a \in 1..Len(row_dictionaries) :
              /\ row_dictionaries[a].cells = file[f[a]].cells
              /\ row_dictionaries[a].user = UserOf(file[f[a]].user)

\* the assignments that need a team created, among the first n in commit order
RECURSIVE CreatedAmong(_, _)
CreatedAmong(A, n) ==
    IF n = 0 THEN <<>>
    ELSE CreatedAmong(A, n - 1) \o
         (IF <<A[n].name, A[n].teamset>> \in DOMAIN existing_course_teams THEN <<>>
          ELSE <<[name |-> A[n].name, topic_id |-> A[n].teamset]>>)

\* C13: nothing is mutated before the last row is validated, and the commit
\* phase works through the validated rows in file order and, inside a row,
\* through the teamset columns in header order: the events emitted so far are
\* for the users of the first assignments in that order, and the teams created
\* so far are those of the first assignments in that order that needed one.
C13_ValidateThenCommitInOrder ==
    /\ pc \in {"start", "load", "rows"} => NoMutation
    /\ pc \in {"rows", "commit", "raised"} => KeptInFileOrder
    /\ pc \in {"commit", "raised"} \/ (pc = "done" /\ exit = "commit") =>
          LET A == AssignmentsFrom(1, 1)
              n == number_of_record_added
          IN /\ n <= Len(A)
             /\ Len(NewEvents) = n
             /\ \A k \in 1..n : NewEvents[k].user_id = A[k].user.id
             /\ NewTeams = CreatedAmong(A, n)
             /\ pc = "done" => n = Len(A)

\* a commit of two rows of different users that created a team for each of
\* two columns of a row
C13_Witness ==
    /\ pc = "done" /\ exit = "commit"
    /\ Len(row_dictionaries) = 2
    /\ row_dictionaries[1].user # row_dictionaries[2].user
    /\ Len(NewTeams) >= 3

\* --------------------------------------------------------------- C14 ----
\* C14: when a run has ended, by a return or by an exception of the commit
\* phase, either nothing was applied or every assignment of the validated rows
\* was: as many additions counted and events emitted as there are assignments.
C14_Claimed ==
    Ended =>
        \/ NoMutation
        \/ /\ number_of_record_added = Len(AssignmentsFrom(1, 1))
           /\ Len(NewEvents) = Len(AssignmentsFrom(1, 1))

\* the runs that end by a return are all-or-nothing
C14_ReturnedRuns == (Ended /\ exit # "raised") => (NoMutation \/ number_of_record_added = Len(AssignmentsFrom(1, 1)))

\* --------------------------------------------------------------- C15 ----
\* the errors this step appended
NewErrors == SubSeq(validation_errors', Len(validation_errors) + 1, Len(validation_errors'))
Last(s) == s[Len(s)]
ColumnOf(c) == CHOOSE n \in 1..Len(header) : header[n] = c

\* the cell of teamset c names a cached team that has reached the max team size
NamesFullTeam(row, c) ==
    /\ row.cells[c] # ""
    /\ <<row.cells[c], c>> \in DOMAIN existing_course_teams
    /\ \E m \in max_team_size :
          Cardinality({x \in memberships : x[2] = existing_course_teams[<<row.cells[c], c>>]}) >= m

\* the errors the cell of teamset c can record
CellErrors(row, c) ==
    {AlreadyMember(UserOf(row.user).username, c)} \cup
    (IF <<row.cells[c], c>> \in DOMAIN existing_course_teams
     THEN {TeamFull(team_id(teams, existing_course_teams[<<row.cells[c], c>>]))}
     ELSE {})

\* validation returned at a column before that of teamset c
ReturnedBefore(row, c) ==
    /\ exit' = "abort"
    /\ \E n \in 1..(ColumnOf(c) - 1) : Last(NewErrors) \in CellErrors(row, header[n])

\* the step of a row, with a resolved and enrolled user, that validation reaches:
\* each cell that names a full team records 'already full', followed by the
\* membership conflict of the same cell when the user is in the membership
\* cache for that teamset, unless the threshold made validation return
FullTeamStep ==
    (pc = "rows" /\ rownum' = rownum + 1 /\ RowRead.user # ""
        /\ ~NoEnrolledUser(RowRead.user) /\ ~StoppedAsDuplicate(RowRead.user)) =>
        \A c \in Range(header) :
            NamesFullTeam(RowRead, c) =>
                LET full == TeamFull(team_id(teams, existing_course_teams[<<RowRead.cells[c], c>>]))
                    conflict == AlreadyMember(UserOf(RowRead.user).username, c)
                    cached == <<UserOf(RowRead.user).id, c>> \in DOMAIN existing_course_team_memberships
                IN \/ ReturnedBefore(RowRead, c)
                   \/ \E k \in 1..Len(NewErrors) :
                         /\ NewErrors[k] = full
                         /\ cached =>
                               \/ k < Len(NewErrors) /\ NewErrors[k + 1] = conflict
                               \/ k = Len(NewErrors) /\ exit' = "abort"

\* a capacity error needs a configured max size and forbids the commit
FullTeamFailsRun ==
    (\E k \in 1..Len(validation_errors) : validation_errors[k][1] = "team_full") =>
        /\ max_team_size # NoMaxSize
        /\ NoMutation
        /\ pc \notin {"commit", "raised"}
        /\ (pc = "done" => returned = "False")

\* C15: an assignment to an existing team that has reached the configured max
\* team size records 'Team ... is already full', and after it the membership
\* conflict of the same cell if that applies and the threshold allows; the
\* import commits nothing.  Without a max size no capacity error is recorded.
C15_FullTeamIsRecorded == [][FullTeamStep]_vars /\ []FullTeamFailsRun

\* the full team's error and the membership conflict of the same cell were
\* both recorded and validation went on to the end of the file
C15_Witness ==
    /\ pc = "done" /\ exit = "errors"
    /\ Len(validation_errors) = 2
    /\ validation_errors[1][1] = "team_full"
    /\ validation_errors[2][1] = "already_member"

\* --------------------------------------------------------------- C16 ----
\* C16: the step of a row with an empty identifier changes nothing but the
\* reader's position: no error, no identifier seen, no cache or placement
\* changed, no row kept for the commit, whatever its teamset cells hold.
C16_EmptyIdentifierRowIsSkipped ==
    [][(pc = "rows" /\ rownum' = rownum + 1 /\ RowRead.user = "") =>
          /\ UNCHANGED <<validation_errors, csv_usernames, user_ids_by_teamset_id,
                         existing_course_team_memberships, existing_course_teams,
                         row_dictionaries, teamset_ids, number_of_record_added,
                         max_errors, teams, memberships, events, pc, exit, returned>>
      ]_vars

\* a file with an empty-identifier row that names a team was committed: only
\* the other row was applied
C16_Witness ==
    /\ pc = "done" /\ exit = "commit"
    /\ Len(file) = 2
    /\ file[1].user = "" /\ \E c \in Range(header) : file[1].cells[c] # ""
    /\ number_of_record_added = 1
    /\ csv_usernames = {file[2].user}

\* --------------------------------------------------------------- C17 ----
IsPrefix(s, t) == Len(s) <= Len(t) /\ SubSeq(t, 1, Len(s)) = s

\* the header column an assignment error is about; the errors about the row's
\* user come before every column
ErrorColumn(row, e) ==
    IF e[1] = "already_member" THEN ColumnOf(e[3])
    ELSE IF e[1] = "team_full"
    THEN CHOOSE n \in 1..Len(header) :
            /\ <<row.cells[header[n]], header[n]>> \in DOMAIN existing_course_teams
            /\ e = TeamFull(team_id(teams, existing_course_teams[<<row.cells[header[n]], header[n]>>]))
    ELSE 0

\* the errors a row can record
RowErrors(row) ==
    {FoundMoreThanOnce(row.user), UserDoesNotExist(row.user)}
    \cup (IF UserOf(row.user) # None
          THEN {NotEnrolled(UserOf(row.user).username)}
               \cup UNION {CellErrors(row, c) : c \in Range(header)}
          ELSE {})

\* the place of an error within the validation of one column: the duplicate
\* before the lookup of the user, the capacity before the membership conflict
ErrorRank(e) == IF e[1] \in {"found_more_than_once", "team_full"} THEN 1 ELSE 2

Before(row, d, e) ==
    \/ ErrorColumn(row, d) < ErrorColumn(row, e)
    \/ ErrorColumn(row, d) = ErrorColumn(row, e) /\ ErrorRank(d) < ErrorRank(e)

\* a step within a run keeps the errors recorded so far as a prefix; the step of
\* a row appends only errors of that row, in the order of validation; the steps
\* after the gate that read no row leave the list alone
AppendOnlyStep ==
    /\ run' = run => IsPrefix(validation_errors, validation_errors')
    /\ (pc = "rows" /\ rownum' = rownum + 1) =>
          /\ \A k \in 1..Len(NewErrors) : NewErrors[k] \in RowErrors(RowRead)
          /\ \A j, k \in 1..Len(NewErrors) : j < k => Before(RowRead, NewErrors[j], NewErrors[k])
    /\ (pc # "rows" /\ pc # "start" /\ run' = run) => UNCHANGED validation_errors

\* C17: validation_errors is append-only: every step of a run keeps the
\* previous list as a prefix, and the messages come in the order of validation:
\* rows in file order, and within a row the teamset columns in header order.
C17_ErrorsAppendOnlyInOrder == [][AppendOnlyStep]_vars

\* the second row of a file recorded two errors, about two teamset columns,
\* in header order
C17_Witness ==
    /\ Len(file) = 2 /\ Len(validation_errors) >= 2
    /\ LET r == file[2]
           n == Len(validation_errors)
       IN /\ validation_errors[n - 1] \in RowErrors(r)
          /\ validation_errors[n] \in RowErrors(r)
          /\ ErrorColumn(r, validation_errors[n - 1]) > 0
          /\ ErrorColumn(r, validation_errors[n - 1]) < ErrorColumn(r, validation_errors[n])

\* --------------------------------------------------------------- C18 ----
WithinMaxSize(ts, ms) ==
    \A m \in max_team_size :
        \A t \in 1..Len(ts) : Cardinality({x \in ms : x[2] = t}) <= m

CachesKept == UNCHANGED <<existing_course_teams, existing_course_team_memberships>>

\* after the preload: the caches stay as loaded; a validation step changes, of
\* the fields the constructor initialises, only validation_errors and the
\* per-teamset user ids (the seen identifiers and the rows kept for the commit
\* are locals of the call); a commit step changes only number_of_record_added
FrameStep ==
    /\ (pc \in {"rows", "commit"} /\ run' = run) => CachesKept
    /\ (pc = "rows" /\ run' = run) =>
          UNCHANGED <<number_of_record_added, max_errors, teamset_ids>>
    /\ (pc = "commit" /\ run' = run) =>
          UNCHANGED <<validation_errors, csv_usernames, user_ids_by_teamset_id,
                      max_errors, teamset_ids, row_dictionaries>>

\* C19: after the preload the team cache and the membership cache are never
\* modified, by validation or by commit; validation changes only
\* validation_errors, the seen identifiers and the per-teamset user ids, and
\* commit changes only number_of_record_added.
C19_CachesFrozenAfterPreload == [][FrameStep]_vars

\* a commit created a team that the team cache, loaded before the rows, does
\* not hold, while validation had changed the per-teamset user ids
C19_Witness ==
    /\ pc = "done" /\ exit = "commit"
    /\ Len(teams) > Cardinality(DOMAIN existing_course_teams)
    /\ existing_course_teams # <<>>
    /\ \E c \in DOMAIN user_ids_by_teamset_id : user_ids_by_teamset_id[c] # {}
    /\ csv_usernames # {}
====
